---- MODULE Spec2Model ----
(***************************************************************************)
(* Lifecycle supervisor of the monitord desktop shell (Electron main        *)
(* process): the promise-chain serializer withAgentOp, the IPC handlers     *)
(* agent:start / agent:stop / agent:status / telegram:set-enabled, the      *)
(* automatic start at launch and the before-quit handler.                   *)
(*                                                                          *)
(* JavaScript runs one macrotask (an IPC message, a timer, an I/O           *)
(* completion, a child 'exit' event) at a time and drains every microtask   *)
(* (promise continuation) before the next macrotask.  A frame whose pc is   *)
(* in ReadyPcs has a continuation waiting in the microtask queue; every     *)
(* macrotask action is guarded by Quiescent.                                *)
(***************************************************************************)
EXTENDS Naturals, Sequences, FiniteSets

\* ------------------------------------------------------------- bounds
MaxOps == 1      \* IPC lifecycle requests submitted by the renderer
MaxSpawn == 3    \* child processes spawned in one run
MaxPolls == 1    \* failed health polls after which the 30 s timeout has elapsed
MaxListenLen == 6   \* pieces of a listen address written to config.yaml
MaxQueued == 3   \* IPC lifecycle requests submitted in SpecQueue

VARIABLES
    platformWin,              \* process.platform === 'win32'
    children,                 \* every ChildProcess handle spawned, by handle id
    agentChild,               \* the tracked handle (0 is null)
    telegramEnabledRuntime,
    agentTransitioning,
    queue,                    \* callbacks chained on agentOpChain, not yet run
    frame,                    \* the async call in flight: "op" (serializer), "quit"
    cfgEnabled,               \* telegram.enabled of the persisted config.yaml
    isQuitRequested,
    submitted,                \* IPC lifecycle requests received so far
    lastRun,                  \* how the latest promise `run` settled
    listen,                   \* the `listen` key of config.yaml, <<>> if absent
    backendBaseUrlRuntime,
    statusReply               \* reply of the agent:status call just handled

vars == <<platformWin, children, agentChild, telegramEnabledRuntime,
          agentTransitioning, queue, frame, cfgEnabled, isQuitRequested,
          submitted, lastRun, listen, backendBaseUrlRuntime, statusReply>>

Threads == {"op", "quit"}
OpKinds == {"start", "stop", "toggle"}

\* Continuations waiting in the microtask queue.
ReadyPcs == {"begin", "sap", "sapCheck", "sapFinally", "spawn", "ret"}

NoReply == [valid |-> FALSE, running |-> FALSE, pid |-> 0,
            telegramEnabled |-> FALSE, transitioning |-> FALSE, busy |-> FALSE]

\* A frame: the locals of the handler body and of the functions it is inside.
\* flag0, child0, mainOk, mainChild and rbOk record what the body observed;
\* resp is the outcome of waitForBackendReady's latest fetch and expired tells
\* whether its 30 s had passed when that fetch settled; cfgRet is what
\* setTelegramEnabledInConfig returned, until startAgentManaged goes on;
\* listenFailed tells that readListenFromConfig could not read the file.
NewFrame(k, a) ==
    [kind |-> k, arg |-> a, seq |-> 0, pc |-> "begin", phase |-> "none",
     sapFrom |-> "none", sapChild |-> 0, samChild |-> 0, samFlag |-> FALSE,
     prevEnabled |-> FALSE, polls |-> 0, ready |-> FALSE,
     resp |-> "none", expired |-> FALSE, cfgRet |-> "none",
     listenFailed |-> FALSE,
     result |-> "none", spawns |-> 0,
     flag0 |-> FALSE, child0 |-> 0, mainOk |-> "none", mainChild |-> 0,
     rbOk |-> "none", rbChild |-> 0]

NoFrame == [NewFrame("none", FALSE) EXCEPT !.pc = "idle"]

\* A ChildProcess handle; cfgFlag is telegram.enabled of the config file the
\* process reads (buildArgs passes only --config); forced tells that
\* child.kill('SIGKILL') was called on it.
NewChild ==
    [exited |-> "no", killed |-> FALSE, term |-> FALSE, cfgFlag |-> FALSE,
     forced |-> FALSE]

\* The most processes one operation of kind k can spawn.
Need(k) == CASE k = "toggle" -> 2 [] k = "ensure" -> 2 [] k = "start" -> 1
             [] OTHER -> 0

RECURSIVE QueueNeed(_)
QueueNeed(q) == IF q = <<>> THEN 0 ELSE Need(Head(q).kind) + QueueNeed(Tail(q))

PendingNeed ==
    QueueNeed(queue)
    + (IF frame["op"].kind = "none" \/ frame["op"].pc = "ret"
       THEN 0 ELSE Need(frame["op"].kind) - frame["op"].spawns)

Ready(t) == frame[t].pc \in ReadyPcs

\* No continuation is waiting: the event loop may take the next macrotask.
Quiescent ==
    /\ ~Ready("op")
    /\ ~Ready("quit")
    /\ ~(frame["op"].kind = "none" /\ queue # <<>>)

Live == {c \in DOMAIN children : children[c].exited = "no"}

\* A handle that neither agentChild nor a local of a call in flight refers
\* to can no longer be read by the program: of its process only being alive
\* or not remains.  What a process was started with is kept while its handle
\* is the tracked one.
Orphan == [NewChild EXCEPT !.exited = "no"]
Gone == [NewChild EXCEPT !.exited = "gone"]

Referenced(c, tracked, fr) ==
    \/ tracked = c
    \/ \E t \in Threads :
          c \in {fr[t].sapChild, fr[t].samChild, fr[t].mainChild,
                 fr[t].rbChild}

Collect(ch, tracked, fr) ==
    [c \in DOMAIN ch |->
        IF tracked = c THEN ch[c]
        ELSE IF Referenced(c, tracked, fr)
             THEN [ch[c] EXCEPT !.cfgFlag = FALSE,
                                !.forced = @ /\ ch[c].exited = "no"]
        ELSE IF ch[c].exited = "no" THEN Orphan ELSE Gone]

\* ------------------------------------------------------- code expressions
\* attachAgentLifecycle: the 'exit' listener clears the tracked handle only
\* when the exiting child is the tracked one.
TrackedAfterExit_Keep(tracked, c) == tracked
TrackedAfterExit_Any(tracked, c) == 0
TrackedAfterExit_WhenIdle(tracked, c) ==
    IF tracked = c /\ frame["op"].kind = "none" THEN 0 ELSE tracked
TrackedAfterExit(tracked, c) == IF tracked = c THEN 0 ELSE tracked
FlagAfterExit_Keep(tracked, c, flag) == flag
FlagAfterExit(tracked, c, flag) == IF tracked = c THEN FALSE ELSE flag

\* waitForExit resolves at once for a child with an exit code or with
\* child.killed set (a signal was delivered by child.kill).
WaitForExitImmediate(ch) == ch.exited = "code" \/ ch.killed

\* stopAgentProcess: child.exitCode === null && !child.killed
NeedsForceKill(ch) == ch.exited # "code" /\ ~ch.killed

\* waitForBackendReady: !child || child.exitCode !== null
ObservedExited(ch) == ch.exited = "code"

\* agent:start guard: if (agentChild) return {ok:false}
AlreadyRunning_Never(tracked) == FALSE
AlreadyRunning(tracked) == tracked # 0

\* startAgentManaged: telegramEnabledRuntime = telegramEnabled
RuntimeFlagAtSpawn_Unset(flag) == FALSE
RuntimeFlagAtSpawn(flag) == flag

\* telegram:set-enabled: the rollback is startAgentManaged with prevEnabled.
RollbackFlag_Target(prev, target) == target
RollbackFlag(prev, target) == prev

\* telegram:set-enabled: const prevEnabled = telegramEnabledRuntime, read
\* before stopAgentProcess runs.
PrevEnabledAtEntry(flag) == flag

\* startAgentManaged: if (!ready) { await stopAgentProcess(); ... }
TerminateOnUnready_Never(ready) == FALSE
TerminateOnUnready(ready) == ~ready

\* Message of the resolved toggle from the two startAgentManaged results.
ToggleOutcome_NoDouble(startedOk, rollbackOk) ==
    IF startedOk THEN "toggled" ELSE "restored"
ToggleOutcome(startedOk, rollbackOk) ==
    IF startedOk THEN "toggled"
    ELSE IF rollbackOk THEN "restored" ELSE "double"

\* Result of agent:start from startAgentManaged's result.
StartOutcome(startedOk) == IF startedOk THEN "ok" ELSE "health"

\* ------------------------------------------------------- base address
\* A string is the sequence of its pieces: the characters '[', ']', ':' and
\* ' ' each by themselves, and the runs of other characters between them.
Pieces == {"[", "]", ":", " ", "0.0.0.0", "10.0.0.5", "9108"}

DefaultListen == <<"127.0.0.1", ":", "9108">>
DefaultBaseUrl == <<"http://", "127.0.0.1", ":", "9108">>

\* return parsed.listen || '127.0.0.1:9108', and the same default when
\* reading or parsing the file fails (ok false).
readListenFromConfig_Stale(l, ok) == IF l # <<>> THEN l ELSE DefaultListen
readListenFromConfig(l, ok) == IF ok /\ l # <<>> THEN l ELSE DefaultListen

\* String.prototype.trim
RECURSIVE TrimStart(_)
TrimStart(str) ==
    IF str # <<>> /\ Head(str) = " " THEN TrimStart(Tail(str)) ELSE str

RECURSIVE TrimEnd(_)
TrimEnd(str) ==
    IF str # <<>> /\ str[Len(str)] = " "
    THEN TrimEnd(SubSeq(str, 1, Len(str) - 1)) ELSE str

Trim(str) == TrimEnd(TrimStart(str))

\* raw.lastIndexOf(':') and raw.lastIndexOf(']:'); positions count from 1
\* here and 0 means not found, where JavaScript counts from 0 and gives -1.
LastColon(raw) ==
    LET at == {i \in 1..Len(raw) : raw[i] = ":"}
    IN IF at = {} THEN 0 ELSE CHOOSE i \in at : \A j \in at : j <= i

LastBracketColon(raw) ==
    LET at == {i \in 1..(Len(raw) - 1) : raw[i] = "]" /\ raw[i + 1] = ":"}
    IN IF at = {} THEN 0 ELSE CHOOSE i \in at : \A j \in at : j <= i

\* if (!host || host === '0.0.0.0' || host === '::') host = '127.0.0.1'
DialableHost(host) ==
    IF host = <<>> \/ host = <<"0.0.0.0">> \/ host = <<":", ":">>
    THEN <<"127.0.0.1">> ELSE host

resolveBackendBaseUrl(l) ==
    LET raw == Trim(l)
        bracket == raw # <<>> /\ raw[1] = "["
        i == IF bracket THEN LastBracketColon(raw) ELSE LastColon(raw)
        \* idx > 0 in JavaScript's count is i > 1 here
        host == IF i > 1
                THEN SubSeq(raw, IF bracket THEN 2 ELSE 1, i - 1)
                ELSE <<"127.0.0.1">>
        port == IF i > 1
                THEN SubSeq(raw, IF bracket THEN i + 2 ELSE i + 1, Len(raw))
                ELSE <<"9108">>
    IN IF raw = <<>> THEN DefaultBaseUrl
       ELSE <<"http://">> \o DialableHost(host) \o <<":">> \o port

\* ------------------------------------------------------------ frames
Step(t, f) == frame' = [frame EXCEPT ![t] = f]

\* startAgentManaged is entered: setTelegramEnabledInConfig first when
\* syncTelegramConfig, else spawnAgentProcess at once.
SamStart(f, phase, flag, sync) ==
    [f EXCEPT !.pc = IF sync THEN "cfgRead" ELSE "spawn", !.phase = phase,
              !.samFlag = flag, !.samChild = 0, !.ready = FALSE, !.polls = 0,
              !.resp = "none", !.expired = FALSE, !.listenFailed = FALSE]

\* Where a frame continues once startAgentManaged has returned ok.  The
\* retry of ensureBackendStarted (setTelegramEnabledInConfig(false), then
\* startAgentManaged without sync) is startAgentManaged(false) with sync.
\* telegram:set-enabled: `if (!started.ok)` guards the one rollback call,
\* whose own result only selects the message returned.
RollbackWanted_WheneverUnready(phase, ok) == ~ok
RollbackWanted(phase, ok) == phase = "main" /\ ~ok

AfterSam(f, ok) ==
    CASE f.kind = "start" ->
            [f EXCEPT !.pc = "ret", !.result = StartOutcome(ok),
                      !.mainOk = IF ok THEN "ok" ELSE "fail"]
      [] f.kind = "toggle" /\ f.phase = "main" ->
            IF ~RollbackWanted(f.phase, ok)
            THEN [f EXCEPT !.pc = "ret", !.mainOk = "ok",
                           !.result = ToggleOutcome(TRUE, FALSE)]
            ELSE SamStart([f EXCEPT !.mainOk = "fail"], "rollback",
                          RollbackFlag(f.prevEnabled, f.arg), TRUE)
      [] f.kind = "toggle" /\ f.phase = "rollback" ->
            IF ~RollbackWanted(f.phase, ok)
            THEN [f EXCEPT !.pc = "ret",
                           !.rbOk = IF ok THEN "ok" ELSE "fail",
                           !.result = ToggleOutcome(FALSE, ok)]
            ELSE SamStart([f EXCEPT !.rbOk = "fail"], "rollback",
                          RollbackFlag(f.prevEnabled, f.arg), TRUE)
      [] f.kind = "ensure" /\ f.phase = "main" ->
            IF ok THEN [f EXCEPT !.pc = "ret", !.mainOk = "ok",
                                 !.result = "ensured"]
            ELSE SamStart([f EXCEPT !.mainOk = "fail"], "retry", FALSE, TRUE)
      [] OTHER ->
            [f EXCEPT !.pc = "ret", !.rbOk = IF ok THEN "ok" ELSE "fail",
                      !.result = "ensured"]

\* Where a frame continues once stopAgentProcess has returned.
AfterSap(f) ==
    CASE f.sapFrom = "quit" -> [f EXCEPT !.pc = "end", !.sapChild = 0]
      [] f.sapFrom = "stop" ->
            [f EXCEPT !.pc = "ret", !.result = "stopped", !.sapChild = 0]
      [] f.sapFrom = "toggle" ->
            SamStart([f EXCEPT !.sapChild = 0], "main", f.arg, TRUE)
      [] OTHER -> AfterSam([f EXCEPT !.sapChild = 0], FALSE)

\* Where a frame continues once waitForBackendReady has returned ready.
AfterReady(f, ready) ==
    IF TerminateOnUnready(ready)
    THEN [f EXCEPT !.pc = "sap", !.sapFrom = "sam", !.ready = ready]
    ELSE AfterSam([f EXCEPT !.ready = ready], ready)

\* Where a frame continues when spawnAgentProcess throws inside it.
AfterThrow_Reject(f) == [f EXCEPT !.pc = "ret", !.result = "rejected"]
AfterThrow_AsOk(f) ==
    [f EXCEPT !.pc = "ret", !.result = "ok", !.mainOk = "threw"]
AfterThrow(f) ==
    CASE f.kind = "start" -> [f EXCEPT !.pc = "ret", !.result = "spawnError",
                                       !.mainOk = "threw"]
      [] f.kind = "toggle" ->
            [f EXCEPT !.pc = "ret", !.result = "toggleError",
                      !.mainOk = IF f.phase = "main" THEN "threw" ELSE @,
                      !.rbOk = IF f.phase = "rollback" THEN "threw" ELSE @]
      [] OTHER -> [f EXCEPT !.pc = "ret", !.result = "rejected",
                            !.mainOk = IF f.phase = "main" THEN "threw" ELSE @,
                            !.rbOk = IF f.phase = "retry" THEN "threw" ELSE @]

Init ==
    /\ platformWin \in BOOLEAN
    /\ children = <<>>
    /\ agentChild = 0
    /\ telegramEnabledRuntime = FALSE
    /\ agentTransitioning = FALSE
    /\ queue = <<[kind |-> "ensure", arg |-> FALSE, seq |-> 0]>>
    /\ frame = [t \in Threads |-> NoFrame]
    /\ cfgEnabled \in BOOLEAN
    /\ isQuitRequested = FALSE
    /\ submitted = 0
    /\ lastRun = "none"
    /\ listen = <<>>
    /\ backendBaseUrlRuntime = DefaultBaseUrl
    /\ statusReply = NoReply

\* ------------------------------------------------- the serializer
\* An IPC request arrives: the handler calls withAgentOp, which chains the
\* body on agentOpChain.  The renderer sends requests until the application
\* quits (before-quit closes its window).
\* agentOpChain.then(callback): the callback runs after every callback
\* chained before it.
Enqueue_Front(q, e) == <<e>> \o q
Enqueue(q, e) == Append(q, e)

SubmitWithin(k, a, max) ==
    /\ Quiescent
    /\ ~isQuitRequested
    /\ submitted < max
    /\ Len(children) + PendingNeed + Need(k) <= MaxSpawn
    /\ queue' = Enqueue(queue, [kind |-> k, arg |-> a, seq |-> submitted + 1])
    /\ submitted' = submitted + 1
    /\ statusReply' = NoReply
    /\ UNCHANGED <<platformWin, children, agentChild,
                   telegramEnabledRuntime, agentTransitioning, frame,
                   cfgEnabled, isQuitRequested, lastRun, listen,
                   backendBaseUrlRuntime>>

Submit(k, a) == SubmitWithin(k, a, MaxOps)

\* Value of agentTransitioning once the chained callback has run up to its
\* await of fn().
FlagWhileRunning_Unset == FALSE
FlagWhileRunning == TRUE

\* withAgentOp's callback: agentTransitioning = true; then fn() starts.
\* The callback chained by agentOpChain.then runs once the run chained
\* before it has settled.
PreviousRunSettled_Always(f) == TRUE
PreviousRunSettled(f) == f.kind = "none"

\* agentOpChain is run.catch(() => {}) and the same callback is passed to
\* then for both outcomes: the next callback runs however the run before it
\* settled.
ChainCallbackRuns_FulfilledOnly(settled) == settled # "rejected"
ChainCallbackRuns(settled) == TRUE

\* How `run` settles for a body that ended with result.
RunSettles(result) == IF result = "rejected" THEN "rejected" ELSE "fulfilled"

\* The callbacks still waiting once the first of them has run: each callback
\* is chained once and runs once.
Dequeue_Two(q) == IF Len(q) > 1 THEN Tail(Tail(q)) ELSE Tail(q)
Dequeue(q) == Tail(q)

OpEnter ==
    /\ PreviousRunSettled(frame["op"])
    /\ ChainCallbackRuns(lastRun)
    /\ queue # <<>>
    /\ agentTransitioning' = FlagWhileRunning
    /\ Step("op", [NewFrame(Head(queue).kind, Head(queue).arg) EXCEPT
                      !.seq = Head(queue).seq,
                      !.flag0 = telegramEnabledRuntime, !.child0 = agentChild])
    /\ queue' = Dequeue(queue)
    /\ statusReply' = NoReply
    /\ UNCHANGED <<platformWin, children, agentChild,
                   telegramEnabledRuntime, cfgEnabled, isQuitRequested,
                   submitted, lastRun, listen,
                   backendBaseUrlRuntime>>

\* The value withAgentOp's `finally { agentTransitioning = false }` leaves,
\* after a body that returned or threw (result "rejected").
FlagAfterRun_OnReturnOnly(result) == result = "rejected"
FlagAfterRun(result) == FALSE

\* withAgentOp's finally: agentTransitioning = false; run settles with the
\* body's result (the frame at "ret" holds it) and agentOpChain after it.
OpFinally ==
    /\ frame["op"].pc = "ret"
    /\ agentTransitioning' = FlagAfterRun(frame["op"].result)
    /\ Step("op", NoFrame)
    /\ children' = Collect(children, agentChild, frame')
    /\ lastRun' = RunSettles(frame["op"].result)
    /\ statusReply' = NoReply
    /\ UNCHANGED <<platformWin, agentChild, telegramEnabledRuntime, queue,
                   cfgEnabled, isQuitRequested, submitted, listen,
                   backendBaseUrlRuntime>>

\* ------------------------------------------------- handler bodies
BodyUnchanged ==
    /\ statusReply' = NoReply
    /\ UNCHANGED <<platformWin, children, agentChild,
                   telegramEnabledRuntime, agentTransitioning, queue,
                   cfgEnabled, isQuitRequested, submitted, lastRun, listen,
                   backendBaseUrlRuntime>>

\* agent:start, up to startAgentManaged.
AgentStartBody ==
    /\ frame["op"].pc = "begin" /\ frame["op"].kind = "start"
    /\ IF AlreadyRunning(agentChild)
       THEN Step("op", [frame["op"] EXCEPT !.pc = "ret", !.result = "already"])
       ELSE Step("op", SamStart(frame["op"], "main", frame["op"].arg, TRUE))
    /\ BodyUnchanged

\* agent:stop, up to stopAgentProcess.
AgentStopBody_NoGuard ==
    /\ frame["op"].pc = "begin" /\ frame["op"].kind = "stop"
    /\ Step("op", [frame["op"] EXCEPT !.pc = "sap", !.sapFrom = "stop"])
    /\ BodyUnchanged

AgentStopBody ==
    /\ frame["op"].pc = "begin" /\ frame["op"].kind = "stop"
    /\ IF agentChild = 0
       THEN Step("op", [frame["op"] EXCEPT !.pc = "ret",
                                            !.result = "notRunning"])
       ELSE Step("op", [frame["op"] EXCEPT !.pc = "sap", !.sapFrom = "stop"])
    /\ BodyUnchanged

\* telegram:set-enabled, up to stopAgentProcess.
TelegramSetEnabledBody_NoStop ==
    /\ frame["op"].pc = "begin" /\ frame["op"].kind = "toggle"
    /\ Step("op", SamStart([frame["op"] EXCEPT
                     !.prevEnabled = PrevEnabledAtEntry(telegramEnabledRuntime)],
                            "main", frame["op"].arg, TRUE))
    /\ BodyUnchanged

TelegramSetEnabledBody ==
    /\ frame["op"].pc = "begin" /\ frame["op"].kind = "toggle"
    /\ Step("op", [frame["op"] EXCEPT !.pc = "sap", !.sapFrom = "toggle",
                     !.prevEnabled = PrevEnabledAtEntry(telegramEnabledRuntime)])
    /\ BodyUnchanged

\* ensureBackendStarted, up to startAgentManaged.
EnsureBody_Sync ==
    /\ frame["op"].pc = "begin" /\ frame["op"].kind = "ensure"
    /\ IF agentChild # 0
       THEN Step("op", [frame["op"] EXCEPT !.pc = "ret", !.result = "ensured"])
       ELSE Step("op", SamStart(frame["op"], "main", FALSE, TRUE))
    /\ BodyUnchanged

EnsureBody ==
    /\ frame["op"].pc = "begin" /\ frame["op"].kind = "ensure"
    /\ IF agentChild # 0
       THEN Step("op", [frame["op"] EXCEPT !.pc = "ret", !.result = "ensured"])
       ELSE Step("op", SamStart(frame["op"], "main", FALSE, FALSE))
    /\ BodyUnchanged

\* ------------------------------------------------- stopAgentProcess
\* stopAgentProcess's finally: if (agentChild === child) agentChild = null
TrackedAfterStop_Keep(tracked, c) == tracked
TrackedAfterStop(tracked, c) == IF tracked = c THEN 0 ELSE tracked

\* What no stopAgentProcess step changes.
SapUnchanged ==
    /\ statusReply' = NoReply
    /\ UNCHANGED <<platformWin, agentTransitioning, queue, cfgEnabled,
                   isQuitRequested, submitted, lastRun, listen,
                   backendBaseUrlRuntime>>

\* finally { untrack the child if it is still the tracked one }; return.
SapFinish(t, c, ch) ==
    /\ agentChild' = TrackedAfterStop(agentChild, c)
    /\ telegramEnabledRuntime' =
           IF agentChild = c THEN FALSE ELSE telegramEnabledRuntime
    /\ Step(t, AfterSap(frame[t]))
    /\ children' = Collect(ch, agentChild', frame')

\* After waitForExit(child, 7000): child.kill('SIGKILL') if the child shows
\* neither an exit code nor killed, then waitForExit(child, 2000).  delivered
\* is what kill returns for a child not yet reported exited (false when the
\* process is already gone); it sets child.killed.
SapAfterWait(t, c, ch, delivered) ==
    LET sent == NeedsForceKill(ch[c]) /\ ch[c].exited = "no" /\ delivered
        ch2 == [ch EXCEPT ![c].killed = @ \/ sent,
                          ![c].forced = @ \/ NeedsForceKill(ch[c])]
    IN IF NeedsForceKill(ch[c])
       THEN /\ children' = ch2
            /\ Step(t, [frame[t] EXCEPT
                           !.sapChild = c,
                           !.pc = IF WaitForExitImmediate(ch2[c])
                                  THEN "sapFinally" ELSE "exitWait2"])
            /\ UNCHANGED <<agentChild, telegramEnabledRuntime>>
       ELSE SapFinish(t, c, ch2)

\* await waitForExit(child, 7000)
SapAfterKill(t, c, ch, delivered) ==
    IF WaitForExitImmediate(ch[c]) THEN SapAfterWait(t, c, ch, delivered)
    ELSE /\ children' = ch
         /\ Step(t, [frame[t] EXCEPT !.sapChild = c, !.pc = "exitWait1"])
         /\ UNCHANGED <<agentChild, telegramEnabledRuntime>>

\* Entry: return at once with nothing tracked; else request termination:
\* taskkill on win32 (spawning it may throw), child.kill('SIGTERM') elsewhere,
\* which sets child.killed.
SapEntry(t, throws) ==
    /\ frame[t].pc = "sap"
    /\ throws => (platformWin /\ agentChild # 0)
    /\ IF agentChild = 0
       THEN /\ Step(t, AfterSap(frame[t]))
            /\ UNCHANGED <<children, agentChild, telegramEnabledRuntime>>
       ELSE LET c == agentChild
                ch == [children EXCEPT
                          ![c].term = TRUE,
                          ![c].killed = IF platformWin THEN @ ELSE TRUE]
            IN IF throws THEN SapFinish(t, c, ch)
               ELSE IF platformWin
               THEN /\ children' = ch
                    /\ Step(t, [frame[t] EXCEPT !.sapChild = c,
                                                !.pc = "killerWait"])
                    /\ UNCHANGED <<agentChild, telegramEnabledRuntime>>
               ELSE SapAfterKill(t, c, ch, TRUE)
    /\ SapUnchanged

\* waitForExit(killer, 5000) resolves: taskkill exited or 5 s passed; then
\* await waitForExit(child, 7000).
KillerDone(t) ==
    /\ Quiescent
    /\ frame[t].pc = "killerWait"
    /\ SapAfterKill(t, frame[t].sapChild, children, TRUE)
    /\ SapUnchanged

\* The timer of a pending waitForExit(child, ...) fires (7 s, then 2 s).
ExitWaitTimeout(t, delivered) ==
    /\ Quiescent
    /\ frame[t].pc \in {"exitWait1", "exitWait2"}
    /\ ~delivered => frame[t].pc = "exitWait1"
    /\ IF frame[t].pc = "exitWait1"
       THEN SapAfterWait(t, frame[t].sapChild, children, delivered)
       ELSE SapFinish(t, frame[t].sapChild, children)
    /\ SapUnchanged

\* The 'exit' event ended the pending waitForExit(child, 7000).
SapCheck(t) ==
    /\ frame[t].pc = "sapCheck"
    /\ SapAfterWait(t, frame[t].sapChild, children, TRUE)
    /\ SapUnchanged

\* waitForExit(child, 2000) has resolved: by the 'exit' event, or at once
\* for a child with child.killed set.
SapFinally(t) ==
    /\ frame[t].pc = "sapFinally"
    /\ SapFinish(t, frame[t].sapChild, children)
    /\ SapUnchanged

\* ------------------------------------------------- startAgentManaged
\* setTelegramEnabledInConfig: if (current === target) return false
NeedsWrite_Always(current, target) == TRUE
NeedsWrite(current, target) == current # target

\* setTelegramEnabledInConfig: fs.readFile completes (ok) or fails.
CfgReadDone(ok) ==
    /\ Quiescent
    /\ frame["op"].pc = "cfgRead"
    /\ Step("op", IF ok /\ NeedsWrite(cfgEnabled, frame["op"].samFlag)
                  THEN [frame["op"] EXCEPT !.pc = "cfgWrite"]
                  ELSE [frame["op"] EXCEPT !.pc = "spawn",
                                           !.cfgRet = "false"])
    /\ BodyUnchanged

\* setTelegramEnabledInConfig: fs.writeFile completes (ok) or fails.
CfgWriteDone(ok) ==
    /\ Quiescent
    /\ frame["op"].pc = "cfgWrite"
    /\ cfgEnabled' = IF ok THEN frame["op"].samFlag ELSE cfgEnabled
    /\ Step("op", [frame["op"] EXCEPT
                     !.pc = "spawn",
                     !.cfgRet = IF ok THEN "true" ELSE "false"])
    /\ statusReply' = NoReply
    /\ UNCHANGED <<platformWin, children, agentChild,
                   telegramEnabledRuntime, agentTransitioning, queue,
                   isQuitRequested, submitted, lastRun, listen,
                   backendBaseUrlRuntime>>

\* spawnAgentProcess throws when the binary is missing in a packaged build
\* (throws: app.isPackaged && !existsSync(binPath)); otherwise
\* startAgentManaged tracks the new child, sets the runtime flag and attaches
\* the exit listener.
Spawn(throws) ==
    /\ frame["op"].pc = "spawn"
    /\ IF throws
       THEN /\ Step("op", AfterThrow([frame["op"] EXCEPT !.cfgRet = "none"]))
            /\ agentChild' = IF frame["op"].kind = "start" THEN 0
                             ELSE agentChild
            /\ UNCHANGED <<children, telegramEnabledRuntime>>
       ELSE /\ Len(children) < MaxSpawn
            /\ children' = Append(children,
                                   [NewChild EXCEPT !.cfgFlag = cfgEnabled])
            /\ agentChild' = Len(children) + 1
            /\ telegramEnabledRuntime' = RuntimeFlagAtSpawn(frame["op"].samFlag)
            /\ Step("op", [frame["op"] EXCEPT
                   !.pc = "readListen",
                   !.cfgRet = "none",
                   !.samChild = Len(children) + 1,
                   !.spawns = @ + 1,
                   !.mainChild = IF frame["op"].phase = "main"
                                 THEN Len(children) + 1 ELSE @,
                   !.rbChild = IF frame["op"].phase = "main"
                               THEN @ ELSE Len(children) + 1])
    /\ statusReply' = NoReply
    /\ UNCHANGED <<platformWin, agentTransitioning, queue,
                   cfgEnabled, isQuitRequested, submitted, lastRun, listen,
                   backendBaseUrlRuntime>>

\* Head of waitForBackendReady's loop: the 30 s bound, then the exit-code
\* check, then the next fetch.
WfbrHead(f, timedOut) ==
    IF timedOut \/ ObservedExited(children[f.samChild])
    THEN AfterReady(f, FALSE)
    ELSE [f EXCEPT !.pc = "poll"]

\* readListenFromConfig completes, having read the file (ok) or not;
\* waitForBackendReady is entered with the 30 s bound not elapsed.
ReadListenDone(ok) ==
    /\ Quiescent
    /\ frame["op"].pc = "readListen"
    /\ backendBaseUrlRuntime' =
           resolveBackendBaseUrl(readListenFromConfig(listen, ok))
    /\ Step("op", WfbrHead([frame["op"] EXCEPT !.polls = 0,
                                               !.listenFailed = ~ok], FALSE))
    /\ statusReply' = NoReply
    /\ UNCHANGED <<platformWin, children, agentChild,
                   telegramEnabledRuntime, agentTransitioning, queue,
                   cfgEnabled, isQuitRequested, submitted, lastRun, listen>>

\* if (response.ok) return true
ReadyOnResponse(ok) == ok

\* One poll ends, with the 30 s passed by then (timedOut) or not: fetch
\* answered ok, or it failed/answered non-ok, the 150 ms sleep passed and the
\* loop head ran (the 30 s have passed at the latest after MaxPolls failed
\* polls).  fetch has no timeout of its own.
PollDone(ok, timedOut) ==
    /\ Quiescent
    /\ frame["op"].pc = "poll"
    /\ (~ok /\ frame["op"].polls + 1 >= MaxPolls) => timedOut
    /\ LET f == [frame["op"] EXCEPT !.resp = IF ok THEN "ok" ELSE "fail",
                                    !.expired = timedOut]
       IN Step("op", IF ReadyOnResponse(ok) THEN AfterReady(f, TRUE)
                     ELSE WfbrHead([f EXCEPT !.polls = @ + 1], timedOut))
    /\ BodyUnchanged

\* ------------------------------------------------- environment
\* A child exits (with an exit code, or killed by a signal): Node sets
\* exitCode/signalCode and emits 'exit'; the listeners of attachAgentLifecycle
\* and of any pending waitForExit run.
ChildExit(c, how) ==
    /\ Quiescent
    /\ children[c].exited = "no"
    /\ (platformWin /\ how = "signal") => children[c].killed
    /\ agentChild' = TrackedAfterExit(agentChild, c)
    /\ telegramEnabledRuntime' =
           FlagAfterExit(agentChild, c, telegramEnabledRuntime)
    /\ children' = Collect([children EXCEPT ![c].exited = how],
                           agentChild', frame)
    /\ frame' = [t \in Threads |->
           IF frame[t].sapChild = c /\ frame[t].pc = "exitWait1"
           THEN [frame[t] EXCEPT !.pc = "sapCheck"]
           ELSE IF frame[t].sapChild = c /\ frame[t].pc = "exitWait2"
           THEN [frame[t] EXCEPT !.pc = "sapFinally"]
           ELSE frame[t]]
    /\ statusReply' = NoReply
    /\ UNCHANGED <<platformWin, agentTransitioning, queue,
                   cfgEnabled, isQuitRequested, submitted, lastRun, listen,
                   backendBaseUrlRuntime>>

\* before-quit: isQuitRequested = true; stopAgentProcess() is called outside
\* the serializer and not awaited.
BeforeQuit ==
    /\ Quiescent
    /\ ~isQuitRequested
    /\ isQuitRequested' = TRUE
    /\ Step("quit", [NewFrame("quit", FALSE) EXCEPT !.pc = "sap",
                                                    !.sapFrom = "quit"])
    /\ statusReply' = NoReply
    /\ UNCHANGED <<platformWin, children, agentChild,
                   telegramEnabledRuntime, agentTransitioning, queue,
                   cfgEnabled, submitted, lastRun, listen,
                   backendBaseUrlRuntime>>

\* agent:status: a read of the module state, outside the serializer.
StatusRunning_Never(tracked) == FALSE
StatusRunning(tracked) == tracked # 0

AgentStatus ==
    /\ Quiescent
    /\ ~isQuitRequested
    /\ statusReply' = [valid |-> TRUE,
                       running |-> StatusRunning(agentChild),
                       pid |-> agentChild,
                       telegramEnabled |-> telegramEnabledRuntime,
                       transitioning |-> agentTransitioning,
                       busy |-> frame["op"].kind # "none" \/ queue # <<>>]
    /\ UNCHANGED <<platformWin, children, agentChild,
                   telegramEnabledRuntime, agentTransitioning, queue, frame,
                   cfgEnabled, isQuitRequested, submitted, lastRun, listen,
                   backendBaseUrlRuntime>>

Next ==
    \/ \E k \in OpKinds, a \in BOOLEAN : (k = "stop" => ~a) /\ Submit(k, a)
    \/ OpEnter
    \/ OpFinally
    \/ AgentStartBody
    \/ AgentStopBody
    \/ TelegramSetEnabledBody
    \/ EnsureBody
    \/ \E t \in Threads, throws \in BOOLEAN : SapEntry(t, throws)
    \/ \E t \in Threads : KillerDone(t)
    \/ \E t \in Threads, delivered \in BOOLEAN : ExitWaitTimeout(t, delivered)
    \/ \E t \in Threads : SapCheck(t)
    \/ \E t \in Threads : SapFinally(t)
    \/ \E ok \in BOOLEAN : CfgReadDone(ok)
    \/ \E ok \in BOOLEAN : CfgWriteDone(ok)
    \/ \E throws \in BOOLEAN : Spawn(throws)
    \/ ReadListenDone(TRUE)
    \/ \E ok \in BOOLEAN, timedOut \in BOOLEAN : PollDone(ok, timedOut)
    \/ \E c \in DOMAIN children, how \in {"code", "signal"} : ChildExit(c, how)
    \/ BeforeQuit
    \/ AgentStatus

\* With no listen key in config.yaml, as in these runs, readListenFromConfig
\* returns the same default whether the file could be read or not; its
\* failure is told apart in SpecConfig, where the key can be present.
Spec == Init /\ [][Next]_vars

\* The runs in which the renderer sends up to MaxQueued agent:start /
\* agent:stop requests, so that several callbacks wait on agentOpChain at
\* once: not win32, telegram disabled in the config, no quit, no I/O failure.
InitQueue == Init /\ ~platformWin /\ ~cfgEnabled

NextQueue ==
    \/ \E k \in {"start", "stop"} : SubmitWithin(k, FALSE, MaxQueued)
    \/ OpEnter
    \/ OpFinally
    \/ AgentStartBody
    \/ AgentStopBody
    \/ EnsureBody
    \/ SapEntry("op", FALSE)
    \/ CfgReadDone(TRUE)
    \/ Spawn(FALSE)
    \/ ReadListenDone(TRUE)
    \/ \E ok \in BOOLEAN, timedOut \in BOOLEAN : PollDone(ok, timedOut)
    \/ \E c \in DOMAIN children : ChildExit(c, "code")

SpecQueue == InitQueue /\ [][NextQueue]_vars

\* SpecQueue with the one step a settled promise guarantees: the callback
\* chained on it runs.
FairSpecQueue == SpecQueue /\ WF_vars(OpEnter)

\* The listen key of config.yaml grows by one piece and the address is
\* derived from it, as startAgentManaged derives it from what
\* readListenFromConfig returned.
ResolveListen(x) ==
    /\ Len(listen) < MaxListenLen
    /\ listen' = Append(listen, x)
    /\ backendBaseUrlRuntime' =
           resolveBackendBaseUrl(readListenFromConfig(listen', TRUE))
    /\ UNCHANGED <<platformWin, children, agentChild, telegramEnabledRuntime,
                   agentTransitioning, queue, frame, cfgEnabled,
                   isQuitRequested, submitted, lastRun, statusReply>>

InitUrl == Init /\ ~platformWin /\ ~cfgEnabled

NextUrl == \E x \in Pieces : ResolveListen(x)

SpecUrl == InitUrl /\ [][NextUrl]_vars

\* The runs in which config.yaml matters: its listen key is set by hand to
\* an address of its own, and reading or writing the file may fail; the
\* renderer sends agent:start and telegram:set-enabled; not win32, no quit.
OtherListen == <<"10.0.0.5", ":", "9108">>

EditListen ==
    /\ Quiescent
    /\ listen = <<>>
    /\ listen' = OtherListen
    /\ statusReply' = NoReply
    /\ UNCHANGED <<platformWin, children, agentChild, telegramEnabledRuntime,
                   agentTransitioning, queue, frame, cfgEnabled,
                   isQuitRequested, submitted, lastRun,
                   backendBaseUrlRuntime>>

InitConfig == Init /\ ~platformWin

NextConfig ==
    \/ \E k \in {"start", "toggle"}, a \in BOOLEAN : Submit(k, a)
    \/ OpEnter
    \/ OpFinally
    \/ AgentStartBody
    \/ TelegramSetEnabledBody
    \/ EnsureBody
    \/ SapEntry("op", FALSE)
    \/ \E ok \in BOOLEAN : CfgReadDone(ok)
    \/ \E ok \in BOOLEAN : CfgWriteDone(ok)
    \/ \E throws \in BOOLEAN : Spawn(throws)
    \/ \E ok \in BOOLEAN : ReadListenDone(ok)
    \/ \E ok \in BOOLEAN, timedOut \in BOOLEAN : PollDone(ok, timedOut)
    \/ \E c \in DOMAIN children : ChildExit(c, "code")
    \/ EditListen

SpecConfig == InitConfig /\ [][NextConfig]_vars

\* Steps the event loop is bound to take: promise continuations, timers
\* (setTimeout of waitForExit) and file reads and writes.
Scheduled ==
    \/ OpEnter
    \/ OpFinally
    \/ AgentStartBody
    \/ AgentStopBody
    \/ TelegramSetEnabledBody
    \/ EnsureBody
    \/ \E t \in Threads, throws \in BOOLEAN : SapEntry(t, throws)
    \/ \E t \in Threads : KillerDone(t)
    \/ \E t \in Threads, delivered \in BOOLEAN : ExitWaitTimeout(t, delivered)
    \/ \E t \in Threads : SapCheck(t)
    \/ \E t \in Threads : SapFinally(t)
    \/ \E ok \in BOOLEAN : CfgReadDone(ok)
    \/ \E ok \in BOOLEAN : CfgWriteDone(ok)
    \/ \E throws \in BOOLEAN : Spawn(throws)
    \/ ReadListenDone(TRUE)

\* A poll of waitForBackendReady ends when fetch settles; the call passes no
\* timeout or signal and the 30 s bound is read only at the loop head, so
\* PollDone is not among the scheduled steps.  Neither are the exit of a
\* child nor the requests of the renderer.
FairSpec == Spec /\ WF_vars(Scheduled)

\* FairSpec with fetch assumed to settle every time.
FetchSettles == \E ok \in BOOLEAN, timedOut \in BOOLEAN : PollDone(ok, timedOut)
FairSpecFetch == FairSpec /\ WF_vars(FetchSettles)

\* ------------------------------------------------------------ claims
\* The frame of the serialized operation; at pc "ret" its body has returned
\* and result is what the caller's promise resolves to.
F == frame["op"]

\* C1: the number of spawned child processes still alive never exceeds 1.
C1_AtMostOneLive == Cardinality(Live) <= 1

\* C2: the body of agent:start, run while a handle is tracked, returns
\* {ok:false} ("already running") and changes neither the spawned handles
\* nor the tracked handle (pid) nor the runtime feature flag.
C2_StartWhileRunningNoop ==
    [][(F.kind = "start" /\ F.pc = "begin" /\ agentChild # 0
        /\ frame'["op"] # F)
       => (/\ frame'["op"].pc = "ret"
           /\ frame'["op"].result = "already"
           /\ frame'["op"].spawns = 0
           /\ UNCHANGED <<children, agentChild, telegramEnabledRuntime>>)]_vars

C2_Witness == F.kind = "start" /\ F.pc = "ret" /\ F.result = "already"

\* C3: every agent:status reply made while an operation is queued or
\* executing in the serializer has transitioning true.
C3_StatusTransitioning ==
    (statusReply.valid /\ statusReply.busy) => statusReply.transitioning

C3_Witness ==
    statusReply.valid /\ statusReply.busy /\ queue # <<>> /\ F.kind # "none"

\* C4: an agent:status reply never has running true or a pid for a handle
\* whose 'exit' event has fired.
C4_StatusNoExitedPid ==
    statusReply.valid =>
       \/ (~statusReply.running /\ statusReply.pid = 0)
       \/ (/\ statusReply.pid \in DOMAIN children
           /\ children[statusReply.pid].exited = "no")

C4_Witness ==
    /\ statusReply.valid /\ ~statusReply.running
    /\ F.pc = "poll" /\ children[F.samChild].exited = "signal"

\* C5: agent:start run with nothing tracked, whose health wait got a success
\* response, resolves ok; and, the spawned process not having exited and no
\* quit being requested, the spawned handle is the tracked one and the runtime
\* flag is the requested one.
C5_StartHealthyResolvesOk ==
    (F.kind = "start" /\ F.pc = "ret" /\ F.child0 = 0 /\ F.ready)
    => /\ F.result = "ok"
       /\ (children[F.mainChild].exited = "no" /\ ~isQuitRequested)
          => (agentChild = F.mainChild /\ telegramEnabledRuntime = F.arg)

C5_Witness ==
    /\ F.kind = "start" /\ F.pc = "ret" /\ F.ready /\ F.result = "ok"
    /\ F.arg /\ agentChild = F.mainChild /\ telegramEnabledRuntime

\* C6: agent:start whose spawned process did not become healthy resolves
\* with the healthz failure, nothing is tracked any more, and the spawned
\* handle was passed to the termination request unless it had exited.
C6_StartUnhealthyTerminates ==
    (F.kind = "start" /\ F.pc = "ret" /\ F.mainChild # 0 /\ ~F.ready)
    => /\ F.result = "health"
       /\ agentChild = 0
       /\ (children[F.mainChild].term \/ children[F.mainChild].exited # "no")

\* C6 as first stated: the spawned handle always receives the termination
\* request, also when its exit notification fired during the health wait.
C6_TerminateAlwaysCalled ==
    (F.kind = "start" /\ F.pc = "ret" /\ F.mainChild # 0 /\ ~F.ready)
    => /\ F.result = "health"
       /\ agentChild = 0
       /\ children[F.mainChild].term

C6_Witness ==
    /\ F.kind = "start" /\ F.pc = "ret" /\ F.mainChild # 0 /\ ~F.ready
    /\ children[F.mainChild].term /\ children[F.mainChild].exited = "no"

\* C7: a toggle run while a handle is tracked, whose restart failed its
\* health wait and whose rollback became healthy, resolves "restored"; and,
\* the rollback process not having exited and no quit being requested, the
\* rollback handle is tracked and the runtime flag is the one from before.
C7_ToggleRollbackRestores ==
    (F.kind = "toggle" /\ F.pc = "ret" /\ F.child0 # 0
     /\ F.mainOk = "fail" /\ F.rbOk = "ok")
    => /\ F.result = "restored"
       /\ (children[F.rbChild].exited = "no" /\ ~isQuitRequested)
          => (agentChild = F.rbChild /\ telegramEnabledRuntime = F.flag0)

C7_Witness ==
    /\ F.kind = "toggle" /\ F.pc = "ret" /\ F.child0 # 0
    /\ F.mainOk = "fail" /\ F.rbOk = "ok" /\ F.arg /\ ~F.flag0
    /\ agentChild = F.rbChild /\ ~telegramEnabledRuntime

\* C8: a toggle run while a handle is tracked, whose restart and rollback
\* both failed their health waits, resolves with the double failure and
\* nothing is tracked.
C8_ToggleDoubleFailureStopped ==
    (F.kind = "toggle" /\ F.pc = "ret" /\ F.child0 # 0
     /\ F.mainOk = "fail" /\ F.rbOk = "fail")
    => (F.result = "double" /\ agentChild = 0)

C8_Witness ==
    /\ F.kind = "toggle" /\ F.pc = "ret" /\ F.child0 # 0
    /\ F.mainOk = "fail" /\ F.rbOk = "fail" /\ F.result = "double"

\* C9: whenever the start with the target flag inside a toggle fails (health
\* failure or spawn error) a rollback start is attempted before the toggle
\* resolves, and every toggle resolves with one of the three outcomes
\* success, restored, double failure.
C9_RollbackAlwaysAttempted ==
    (F.kind = "toggle" /\ F.pc = "ret")
    => /\ F.result \in {"toggled", "restored", "double"}
       /\ (F.mainOk # "ok" => F.rbOk # "none")

\* C10: when the body of agent:stop, run with a handle tracked, has
\* returned, nothing is tracked (running false, pid null), whether the
\* termination succeeded, timed out or threw.
C10_StopClearsHandle ==
    (F.kind = "stop" /\ F.pc = "ret" /\ F.child0 # 0)
    => (agentChild = 0 /\ F.result = "stopped")

C10_Witness ==
    /\ F.kind = "stop" /\ F.pc = "ret" /\ F.child0 # 0
    /\ platformWin /\ children[F.child0].exited = "no"

\* C11: the body of every agent:start, agent:stop and telegram:set-enabled
\* returns a result value; none ends by throwing, whatever failed inside it
\* (spawn error, taskkill error, config I/O error, health failure).
C11_HandlersNeverReject ==
    (F.kind \in OpKinds /\ F.pc = "ret")
    => (F.result \notin {"none", "rejected"}
        /\ RunSettles(F.result) = "fulfilled")

C11_Witness ==
    /\ F.kind \in OpKinds /\ F.pc = "ret" /\ F.mainOk = "threw"
    /\ F.result \in {"spawnError", "toggleError"}

\* C12: while the body of one serialized operation is between its first and
\* its last step, suspended or not, no other submitted body takes a step: the
\* executing body changes only by the completion of the one executing.
C12_OneBodyAtATime ==
    [][/\ (F.kind # "none" /\ frame'["op"].kind # "none")
          => (frame'["op"].seq = F.seq /\ frame'["op"].kind = F.kind)
       /\ (F.kind # "none" /\ frame'["op"].kind = "none") => F.pc = "ret"]_vars

C12_Witness ==
    /\ queue # <<>> /\ F.kind # "none" /\ F.pc = "poll"
    /\ Head(queue).seq # F.seq

\* C13: bodies begin in the order of submission: the callbacks waiting on
\* agentOpChain are in submission order, and the body executing was submitted
\* before every callback still waiting.
C13_SubmissionOrder ==
    /\ \A i \in DOMAIN queue, j \in DOMAIN queue :
          i < j => queue[i].seq < queue[j].seq
    /\ F.kind # "none" => \A i \in DOMAIN queue : F.seq < queue[i].seq

C13_Witness ==
    /\ F.seq = 1 /\ F.pc = "ret" /\ F.result = "stopped"
    /\ Len(queue) = 1 /\ Head(queue).seq = 2 /\ Head(queue).kind = "start"

\* C14: a run that rejected does not stop the queue: whenever a callback
\* waits and no body is executing, the next callback can start, also after a
\* rejection; and the body that runs after a rejected one does not end
\* rejected because of it.
C14_FailureDoesNotStopQueue ==
    /\ (F.kind = "none" /\ queue # <<>>) => ENABLED OpEnter
    /\ (lastRun = "rejected" /\ F.kind # "none" /\ F.pc = "ret")
       => RunSettles(F.result) = "fulfilled"

C14_Witness ==
    lastRun = "rejected" /\ F.kind \in OpKinds /\ F.pc = "ret" /\ F.seq = 1

\* C15: whenever no serialized operation is executing or waiting, the
\* telegram.enabled persisted in the config file equals the runtime flag
\* that agent:status reports.
C15_PersistedEqualsRuntimeWhenIdle ==
    (F.kind = "none" /\ queue = <<>>) => cfgEnabled = telegramEnabledRuntime

\* C16: every operation that is executing or waiting in the serializer
\* eventually completes, whatever the child and the health endpoint do.
C16_EveryOperationCompletes ==
    (F.kind # "none" \/ queue # <<>>) ~> (F.kind = "none" /\ queue = <<>>)

\* C17: agent:status is a read outside the serializer: the step that makes a
\* reply changes no other variable (tracked handle, runtime flag,
\* transitioning flag, waiting callbacks, bodies in flight), and the reply is
\* the state at that moment; it is answered also while a body is suspended.
C17_StatusPureRead ==
    /\ [][statusReply'.valid =>
            UNCHANGED <<platformWin, children, agentChild,
                        telegramEnabledRuntime, agentTransitioning, queue,
                        frame, cfgEnabled, isQuitRequested, submitted,
                        lastRun, listen,
                   backendBaseUrlRuntime>>]_vars
    /\ [](statusReply.valid =>
            /\ statusReply.running = (agentChild # 0)
            /\ statusReply.pid = agentChild
            /\ statusReply.telegramEnabled = telegramEnabledRuntime
            /\ statusReply.transitioning = agentTransitioning)

C17_Witness ==
    /\ statusReply.valid /\ statusReply.running /\ statusReply.transitioning
    /\ F.pc = "exitWait1" /\ queue # <<>>

\* C18: whenever an agent:status reply has running true, its telegramEnabled
\* is the telegram.enabled of the config file that the tracked process was
\* started with.
C18_ReportedFlagIsSpawnConfig ==
    (statusReply.valid /\ statusReply.running)
    => statusReply.telegramEnabled = children[statusReply.pid].cfgFlag

\* C19: once before-quit's stopAgentProcess and every serialized operation
\* have finished after a quit request, no spawned process is alive and none
\* is tracked; and no process is spawned after the quit request.
C19_TornDownAfterQuit ==
    /\ []((isQuitRequested /\ frame["quit"].pc = "end"
           /\ F.kind = "none" /\ queue = <<>>)
          => (Live = {} /\ agentChild = 0))
    /\ [][isQuitRequested => Len(children') = Len(children)]_vars

\* C20: agent:start whose spawnAgentProcess throws (binary missing in a
\* packaged build) returns the "could not start" {ok:false} result and leaves
\* nothing tracked.
C20_SpawnErrorLeavesStopped ==
    (F.kind = "start" /\ F.pc = "ret" /\ F.mainOk = "threw")
    => (F.result = "spawnError" /\ agentChild = 0 /\ F.spawns = 0)

C20_Witness ==
    /\ F.kind = "start" /\ F.pc = "ret" /\ F.mainOk = "threw"
    /\ F.result = "spawnError" /\ agentChild = 0 /\ children = <<>>

\* C21: resolveBackendBaseUrl gives the IPv4 loopback with the same port for
\* the IPv4 wildcard, the IPv6 loopback with the same port for the IPv6
\* wildcard, and http://host:port for another host.
C21_WildcardToLoopback ==
    /\ listen = <<"0.0.0.0", ":", "9108">>
       => backendBaseUrlRuntime = <<"http://", "127.0.0.1", ":", "9108">>
    /\ listen = <<"[", ":", ":", "]", ":", "9108">>
       => backendBaseUrlRuntime = <<"http://", "[", ":", ":", "1", "]", ":", "9108">>
    /\ listen = <<"10.0.0.5", ":", "9108">>
       => backendBaseUrlRuntime = <<"http://", "10.0.0.5", ":", "9108">>

\* The positions of a thread inside stopAgentProcess, and the child a call
\* at such a position is stopping.
SapPcs == {"sap", "killerWait", "exitWait1", "sapCheck", "exitWait2",
           "sapFinally"}
SapTarget(t) == IF frame[t].pc = "sap" THEN agentChild ELSE frame[t].sapChild
SapReturns(t) == frame[t].pc \in SapPcs /\ frame'[t].pc \notin SapPcs

\* C22: stopAgentProcess escalates: a call that requested termination and
\* returns while its process has not exited has sent it SIGKILL before (the
\* call whose taskkill could not be spawned requested nothing and is left
\* aside).
C22_EscalatesToForceKill ==
    [][\A t \in Threads :
          (/\ SapReturns(t)
           /\ SapTarget(t) # 0
           /\ ~(platformWin /\ frame[t].pc = "sap")
           /\ children[SapTarget(t)].exited = "no")
          => children[SapTarget(t)].forced]_vars

\* C23: stopAgentProcess returns only once its process is known to have
\* exited or both waits (7 s, then 2 s) have run out: a call that requested
\* termination and returns while the process has not exited returns from the
\* timeout of the second wait.
C23_ReturnsAfterExitOrBounds ==
    [][\A t \in Threads :
          (/\ SapReturns(t)
           /\ SapTarget(t) # 0
           /\ ~(platformWin /\ frame[t].pc = "sap")
           /\ children[SapTarget(t)].exited = "no")
          => frame[t].pc = "exitWait2"]_vars

\* A step in which the head of waitForBackendReady's loop ran: the entry of
\* the function, or the end of a poll that got no ok answer.
LoopHeadRan ==
    \/ frame["op"].pc = "readListen" /\ frame'["op"].pc # "readListen"
    \/ frame["op"].pc = "poll" /\ frame'["op"].polls # frame["op"].polls

\* C24: waitForBackendReady issues no request for a child that has exited,
\* by an exit code or by a signal: when the loop head goes on to a fetch, the
\* child has not exited.
C24_NoPollAfterExit ==
    [][(LoopHeadRan /\ frame'["op"].pc = "poll")
       => children[frame["op"].samChild].exited = "no"]_vars

\* A step in which waitForBackendReady returns.
WfbrReturns ==
    /\ frame["op"].pc \in {"readListen", "poll"}
    /\ frame'["op"].pc \notin {"readListen", "poll"}

\* C25: waitForBackendReady returns true exactly when a fetch was answered ok
\* before the 30 s had passed; when it returns false after a failed fetch,
\* the 30 s have passed or the child shows an exit code.
C25_ReadyIffOkBeforeTimeout ==
    [][WfbrReturns =>
          LET f == frame'["op"]
          IN /\ f.ready <=> (f.resp = "ok" /\ ~f.expired)
             /\ (~f.ready /\ f.resp = "fail")
                => (f.expired \/ ObservedExited(children[frame["op"].samChild]))
      ]_vars

\* C26: when the 'exit' event of the tracked child fires, agentChild is
\* cleared (and telegramEnabledRuntime with it) in that same step, whatever
\* the serialized operation and the quit handling are doing.
C26_ExitResetsTracked ==
    [][(/\ agentChild # 0
        /\ children[agentChild].exited = "no"
        /\ children'[agentChild].exited # "no")
       => (agentChild' = 0 /\ ~telegramEnabledRuntime')]_vars

\* The tracked child has exited during the health wait of an operation, and
\* nothing is tracked.
C26_Witness ==
    /\ frame["op"].pc = "poll"
    /\ children[frame["op"].samChild].exited \in {"code", "signal"}
    /\ agentChild = 0

\* C27: an operation whose child has exited by itself does not fail on it:
\* agent:start whose child exited before startAgentManaged returned resolves
\* with the health failure and nothing tracked, and agent:stop and
\* telegram:set-enabled never reject.
C27_GoneHandleIsNoop ==
    /\ (/\ F.pc = "ret" /\ F.kind = "start" /\ F.samChild # 0
        /\ children[F.samChild].exited \in {"code", "signal"})
       => (F.result = "health" /\ agentChild = 0)
    /\ (F.pc = "ret" /\ F.kind \in {"stop", "toggle"})
       => F.result # "rejected"

\* C28: while a serialized operation is executing, agentChild and
\* telegramEnabledRuntime change only in a step of that operation or in the
\* 'exit' event of the tracked child; the stopAgentProcess call of
\* before-quit changes neither.
C28_OnlyOperationOrExitWrites ==
    [][(/\ frame["op"].kind # "none"
        /\ \/ agentChild' # agentChild
           \/ telegramEnabledRuntime' # telegramEnabledRuntime)
       => \/ frame'["quit"] = frame["quit"] /\ frame'["op"] # frame["op"]
          \/ /\ agentChild # 0
             /\ children[agentChild].exited = "no"
             /\ children'[agentChild].exited # "no"]_vars

\* Steps of a telegram:set-enabled run with a handle tracked: the one that
\* enters startAgentManaged for the target, and the ones that spawn.
ToggleEntersRestart ==
    /\ F.kind = "toggle" /\ F.child0 # 0
    /\ F.phase = "none" /\ frame'["op"].phase = "main"
ToggleSpawns ==
    /\ F.kind = "toggle" /\ F.child0 # 0
    /\ Len(children') > Len(children)

\* C29: a telegram:set-enabled run with a handle tracked enters
\* startAgentManaged for the target in the step in which its
\* stopAgentProcess call on the old handle returns, with prevEnabled already
\* taken; it spawns only with nothing tracked; and it spawns the rollback
\* only when the failed target process was passed to the termination request
\* or has exited by itself.
C29_ToggleStepsInOrder ==
    [][/\ ToggleEntersRestart
          => /\ SapReturns("op")
             /\ SapTarget("op") = F.child0
             /\ F.prevEnabled = F.flag0
       /\ ToggleSpawns
          => /\ agentChild = 0
             /\ F.phase = "rollback"
                => /\ F.mainChild # 0
                   /\ \/ children[F.mainChild].term
                      \/ children[F.mainChild].exited # "no"]_vars

\* C29 as first stated: the failed target process has always been passed to
\* the termination request when the rollback is spawned.
C29_RollbackAfterTerminate ==
    [][(ToggleSpawns /\ F.phase = "rollback")
       => (F.mainChild # 0 /\ children[F.mainChild].term)]_vars

\* The rollback process has been spawned after the failed target process,
\* still alive, was passed to the termination request.
C29_Witness ==
    /\ F.kind = "toggle" /\ F.child0 # 0 /\ F.phase = "rollback"
    /\ F.rbChild # 0 /\ F.pc = "readListen"
    /\ children[F.mainChild].term /\ children[F.mainChild].exited = "no"

\* C30: telegram:set-enabled run with nothing tracked spawns no process and
\* leaves nothing tracked when its body returns.
C30_ToggleWhileStoppedSpawnsNothing ==
    (F.kind = "toggle" /\ F.pc = "ret" /\ F.child0 = 0)
    => (F.spawns = 0 /\ agentChild = 0)

\* C31: agent:stop run with nothing tracked does nothing: no step of it
\* calls stopAgentProcess, and none changes the processes, agentChild,
\* telegramEnabledRuntime, backendBaseUrlRuntime or the config file; it
\* resolves "not running".
C31_StopWhileStoppedNoop ==
    [][(F.kind = "stop" /\ F.child0 = 0 /\ frame'["op"] # F)
       => /\ frame'["op"].sapFrom = "none"
          /\ frame'["op"].pc = "ret" => frame'["op"].result = "notRunning"
          /\ UNCHANGED <<children, agentChild, telegramEnabledRuntime,
                         backendBaseUrlRuntime, cfgEnabled, listen>>]_vars

\* agent:stop has resolved with nothing tracked at its entry, after a
\* process had been spawned and the config file written.
C31_Witness ==
    /\ F.kind = "stop" /\ F.pc = "ret" /\ F.child0 = 0
    /\ F.result = "notRunning" /\ children # <<>>

\* A step in which setTelegramEnabledInConfig returns.
CfgReturns ==
    F.pc \in {"cfgRead", "cfgWrite"} /\ frame'["op"].pc \notin {"cfgRead", "cfgWrite"}

\* C32: setTelegramEnabledInConfig returns true exactly when it changed the
\* flag of the config file, changes it only to its target, leaves a file
\* that has the target as it is (returning false), and never throws: the
\* caller goes on to the spawn.
C32_WritesOnlyWhenDifferent ==
    [][CfgReturns =>
          /\ frame'["op"].cfgRet = "true" <=> cfgEnabled' # cfgEnabled
          /\ frame'["op"].cfgRet \in {"true", "false"}
          /\ cfgEnabled' \in {cfgEnabled, F.samFlag}
          /\ cfgEnabled = F.samFlag
             => (cfgEnabled' = cfgEnabled /\ F.pc = "cfgRead")
          /\ frame'["op"].pc = "spawn"]_vars

\* setTelegramEnabledInConfig has returned false, in an agent:start that
\* follows the automatic start, for a file that already had the target.
C32_Witness ==
    /\ F.pc = "spawn" /\ F.cfgRet = "false" /\ F.kind = "start"
    /\ cfgEnabled = F.samFlag /\ ~cfgEnabled
    /\ lastRun # "none" /\ children # <<>>

C34_UntrackedMeansFlagOff ==
    /\ agentChild = 0 => ~telegramEnabledRuntime
    /\ (F.kind = "toggle" /\ F.child0 = 0 /\ F.pc # "begin") => ~F.prevEnabled

\* A process started with the flag on has exited during its health wait:
\* nothing is tracked and the flag is off again.
C34_Witness ==
    /\ F.kind = "start" /\ F.arg /\ F.pc = "poll"
    /\ children[F.samChild].exited \in {"code", "signal"}
    /\ agentChild = 0 /\ ~telegramEnabledRuntime

\* C35: the 'exit' event of a child that is not the tracked one changes
\* neither agentChild nor telegramEnabledRuntime.
C35_LateExitOfOldChild ==
    [][\A c \in DOMAIN children :
          (/\ c # agentChild
           /\ children[c].exited = "no"
           /\ children'[c].exited # "no")
          => UNCHANGED <<agentChild, telegramEnabledRuntime>>]_vars

\* The 'exit' event of an old child has just ended a pending waitForExit
\* while a newer child, started with the flag on, is the tracked one.
C35_Witness ==
    \E t \in Threads :
        /\ frame[t].pc = "sapCheck"
        /\ agentChild # 0 /\ frame[t].sapChild < agentChild
        /\ telegramEnabledRuntime

\* C36: with no body executing, and so whenever no body is executing and no
\* callback waits, agentTransitioning is false, also after a body that
\* threw.
C36_IdleMeansNotTransitioning ==
    F.kind = "none" => ~agentTransitioning

\* Nothing executes or waits after a body that threw, and the flag is off.
C36_Witness ==
    /\ F.kind = "none" /\ queue = <<>> /\ lastRun = "rejected"
    /\ ~agentTransitioning

\* The callback of the request with ticket s waits on agentOpChain.
Waiting(s) == \E i \in DOMAIN queue : queue[i].seq = s

\* C37: a waiting callback eventually runs, unless a body submitted before
\* it never completes; and the body that starts is the one of the first
\* waiting callback, which alone leaves the waiting ones.
C37_WaitingEventuallyRuns ==
    /\ \A s \in 1..(MaxQueued + 1) :
          [](Waiting(s) => (\/ <>(F.kind # "none" /\ F.seq = s)
                            \/ <>[](F.kind # "none" /\ F.seq < s)))
    /\ [][(F.kind = "none" /\ frame'["op"].kind # "none")
          => /\ queue # <<>>
             /\ frame'["op"].seq = Head(queue).seq
             /\ frame'["op"].kind = Head(queue).kind
             /\ queue' = Tail(queue)]_vars

\* The second request has started after waiting, with the third waiting.
C37_Witness ==
    /\ F.kind # "none" /\ F.seq = 2
    /\ queue # <<>> /\ Head(queue).seq = 3

\* C38: ensureBackendStarted runs as a serialized operation; entered with a
\* process tracked it spawns nothing; else it spawns at most twice, with the
\* flag off: first without reading or writing config.yaml, and a second
\* time only after the first failed its health wait and
\* setTelegramEnabledInConfig(false) has returned.
C38_AutoStartAtMostTwo ==
    F.kind = "ensure"
    => /\ agentTransitioning
       /\ F.child0 # 0 => F.spawns = 0
       /\ F.spawns <= 2
       /\ ~F.samFlag
       /\ F.phase = "main" => (F.pc \notin {"cfgRead", "cfgWrite"} /\ F.spawns <= 1)
       /\ F.phase = "retry"
          => /\ F.mainOk = "fail" /\ F.mainChild # 0
             /\ F.pc = "spawn"
                => /\ F.cfgRet \in {"true", "false"}
                   /\ F.cfgRet = "true" => ~cfgEnabled
       /\ F.spawns = 2 => F.phase = "retry"

\* The automatic start has returned after its retry, the flag of the config
\* file forced off.
C38_Witness ==
    /\ F.kind = "ensure" /\ F.pc = "ret" /\ F.spawns = 2
    /\ F.mainOk = "fail" /\ F.rbOk = "ok" /\ ~cfgEnabled

\* C39: one telegram:set-enabled call spawns at most twice, the second time
\* only as the rollback of a first start that was not ready; one agent:start
\* call spawns at most once; a rollback that was not ready ends the call.
C39_SpawnsPerCall ==
    /\ F.kind = "start" => F.spawns <= 1
    /\ F.kind = "toggle"
       => /\ F.spawns <= 2
          /\ F.phase = "main" => F.spawns <= 1
          /\ F.phase = "rollback" => (F.mainOk = "fail" /\ F.mainChild # 0)
          /\ F.rbOk = "fail" => (F.pc = "ret" /\ F.result = "double")

\* The rollback start of a toggle was not ready either: the call has returned
\* after two spawns.
C39_Witness ==
    /\ F.kind = "toggle" /\ F.pc = "ret" /\ F.spawns = 2
    /\ F.mainOk = "fail" /\ F.rbOk = "fail"

====
